---- MODULE Spec2Model ----
(***************************************************************************)
(* Model of scripts/show-terminal-input.py: a terminal is put into raw     *)
(* mode, byte events are read with an idle-timeout coalescing loop,        *)
(* described, printed with a running counter, and the terminal attributes  *)
(* are restored in a finally block.                                        *)
(*                                                                         *)
(* Time is counted in units of 1/1000 s: the flag --coalesce-ms gives a    *)
(* number of such units, and select's timeout max(ms, 0) / 1000.0 seconds  *)
(* is max(ms, 0) units.  The program's own computation takes no time; the  *)
(* clock advances only inside the blocking read and the readiness wait.    *)
(***************************************************************************)
EXTENDS Integers, Sequences, FiniteSets, TLC

\* ------------------------------------------------------------- bounds
MaxStream == 2
MaxGap == 1
MaxCoalesceMs == 2
MaxCounter == 4
MaxDescLen == 2

\* ------------------------------------------------- program constants
CR == 13
LF == 10
TAB == 9
ESC == 27
DEL == 127
LBRACKET == 91
LETTER_O == 79
CTRL_MAX == 31
KEY_Q == 113
CTRL_C == 3
FIRST_READ == 1
CHUNK_SIZE == 1024
PRINTABLE_MIN == 32
PRINTABLE_MAX == 126
DOT == 46
EXIT_NOT_TTY == 2
EXIT_OK == 0

\* Bytes of the modelled keyboard: the two exit bytes and ESC [ A.
Bytes == {CTRL_C, ESC, 65, LBRACKET, KEY_Q}

\* The up-arrow key (ESC [ A), then q pressed twice: a q that arrives glued
\* to the arrow's bytes is part of that event, the next q is alone.
UpArrowThenQ == <<ESC, LBRACKET, 65, KEY_Q, KEY_Q>>

\* Signals another process can send while the loop runs.
Signals == {"SIGINT", "SIGTERM", "SIGHUP"}

\* Bytes the describer is exercised on: every control byte, the bytes the
\* rules name, and ordinary / high bytes.
DescBytes == (0..32) \cup {65, LETTER_O, 80, LBRACKET, KEY_Q, DEL, 128, 255}

\* Terminal attribute settings a terminal can have before the program runs.
Attrs == {"cooked", "cbreak"}

VARIABLES
  pc,               \* position of main
  isatty,           \* sys.stdin.isatty()
  termAttr,         \* the terminal's current attributes
  old,              \* the snapshot taken by tcgetattr, "none" before
  coalesce_ms,      \* args.coalesce_ms
  coalesce_timeout, \* coalesce_timeout_s in units of 1/1000 s, -1 before set
  keys,             \* the bytes the input is going to deliver, in order
  input,            \* the bytes that have arrived on the input, in order
  arrT,             \* arrT[i]: the time at which input[i] arrived
  closed,           \* the input has been closed (end of file, hangup)
  pos,              \* number of bytes of input consumed by os.read
  now,              \* the clock
  data,             \* the bytearray of _read_event / data of main
  counter,          \* the session counter
  description,      \* description of main
  lines,            \* lines printed to standard output by the loop
  stderr,           \* messages written to standard error
  status,           \* exit status of the process, "none" while running
  exc,              \* exception in flight, "none" without
  events,           \* history: the values returned by _read_event
  calls,            \* history: system calls made on the input descriptor
  waits,            \* history: timeouts handed to select.select
  tFirst,           \* history: clock when the current event's first read returned
  entryAttr,        \* history: the terminal's attributes when the program started
  eofSeen           \* history: some os.read has returned zero bytes

vars == <<pc, isatty, termAttr, old, coalesce_ms, coalesce_timeout, keys,
          input, arrT, closed, pos, now, data, counter, description, lines,
          stderr, status, exc, events, calls, waits, tFirst, entryAttr, eofSeen>>

\* What the program never writes.
env == <<isatty, coalesce_ms, keys, entryAttr>>
\* What only reading changes.
inp == <<input, arrT, closed, pos, now>>

\* ------------------------------------------------------------ helpers
Max(a, b) == IF a >= b THEN a ELSE b
Min(a, b) == IF a <= b THEN a ELSE b

SeqsUpTo(S, n) == UNION {[1..k -> S] : k \in 0..n}

\* What the keyboard is going to send in a run: any short sequence of its
\* bytes, or the up-arrow scenario.
Keyboards == SeqsUpTo(Bytes, MaxStream) \cup {UpArrowThenQ}

StartsWith(d, p) == Len(d) >= Len(p) /\ SubSeq(d, 1, Len(p)) = p

HexDigit(n) ==
  <<"0", "1", "2", "3", "4", "5", "6", "7", "8", "9",
    "a", "b", "c", "d", "e", "f">>[n + 1]

\* f"{b:02x}"
Hex2(b) == HexDigit(b \div 16) \o HexDigit(b % 16)

\* -------------------------------------------------------- the describer
\* Bug: the control-byte rule comes first.
_describe_bytes_GenericFirst(d) ==
  IF Len(d) = 1 /\ 0 <= d[1] /\ d[1] <= CTRL_MAX
    THEN "Control byte 0x" \o Hex2(d[1])
  ELSE IF d = <<DEL>> THEN "DEL (0x7f) - often Backspace"
  ELSE IF StartsWith(d, <<ESC, LBRACKET>>)
    THEN "ANSI CSI sequence (starts with ESC [)"
  ELSE IF StartsWith(d, <<ESC, LETTER_O>>)
    THEN "ANSI SS3 sequence (starts with ESC O)"
  ELSE ""

\* Lines 19-44.
\* -------------------------------------------------------- the describer
_describe_bytes(d) ==
  IF d = <<CR>> THEN "CR (\\r) - often Enter/Return; also Ctrl+M"
  ELSE IF d = <<LF>> THEN "LF (\\n) - often newline; also Ctrl+J"
  ELSE IF d = <<TAB>> THEN "TAB (\\t) - also Ctrl+I"
  ELSE IF d = <<ESC>> THEN "ESC"
  ELSE IF d = <<DEL>> THEN "DEL (0x7f) - often Backspace"
  ELSE IF StartsWith(d, <<ESC, LBRACKET>>)
    THEN "ANSI CSI sequence (starts with ESC [)"
  ELSE IF StartsWith(d, <<ESC, LETTER_O>>)
    THEN "ANSI SS3 sequence (starts with ESC O)"
  ELSE IF Len(d) = 1 /\ 0 <= d[1] /\ d[1] <= CTRL_MAX
    THEN "Control byte 0x" \o Hex2(d[1])
  ELSE ""

\* ------------------------------------------------------ the input stream
\* Bytes arrive in bursts: a burst is one or more of the coming bytes that
\* become readable at the same instant (a key that sends an escape
\* sequence, a paste).
Bursts ==
  {SubSeq(keys, Len(input) + 1, Len(input) + k) : k \in 1..(Len(keys) - Len(input))}

\* Bug: the flag is handed on as it is.
ClampedWindow_Unclamped(ms) == ms

\* Line 83: the window handed to select, negative flags clamped to 0.
ClampedWindow(ms) == Max(ms, 0)

\* Bug: the chunk replaces what was read before.
Extend_Replace(d, chunk) == chunk

\* Line 61: data.extend(chunk).
Extend(d, chunk) == d \o chunk

\* Bug: the counter is not raised.
NextCounter_Unchanged(c) == c

\* Line 100: counter += 1.
NextCounter(c) == c + 1

\* Number of unread bytes in the descriptor's buffer.
Buffered == Len(input) - pos

\* os.read(fd, n): the buffered bytes, n at most.
ReadChunk(n) == SubSeq(input, pos + 1, pos + Min(Buffered, n))

\* Delay between the arrival of byte i - 1 and of byte i.
Gap(i) == arrT[i] - arrT[i - 1]

\* ------------------------------------------------------------ the lines
\* "".join(chr(b) if 32 <= b <= 126 else "." for b in data), as codes
SafeRepr(d) ==
  [i \in 1..Len(d) |->
     IF PRINTABLE_MIN <= d[i] /\ d[i] <= PRINTABLE_MAX THEN d[i] ELSE DOT]

HexBytes(d) == [i \in 1..Len(d) |-> Hex2(d[i])]

Suffix(label) == IF label # "" THEN " | " \o label ELSE ""

Line(n, d, suffix, afterEof) ==
  [counter |-> n, len |-> Len(d), hex |-> HexBytes(d), data |-> d,
   ascii |-> SafeRepr(d), description |-> suffix, closed |-> afterEof]

\* Bug: any event that contains an exit byte ends the loop.
IsExitEvent_Contains(d) == \E i \in 1..Len(d) : d[i] \in {KEY_Q, CTRL_C}

\* Lines 97: data in (b"q", b"\x03").
IsExitEvent(d) == d \in {<<KEY_Q>>, <<CTRL_C>>}

\* ---------------------------------------------------------------- Init
Idle ==
  /\ old = "none"
  /\ coalesce_timeout = -1
  /\ pos = 0
  /\ now = 0
  /\ counter = 0
  /\ description = ""
  /\ lines = <<>>
  /\ stderr = <<>>
  /\ status = "none"
  /\ exc = "none"
  /\ events = <<>>
  /\ calls = {}
  /\ waits = {}
  /\ tFirst = 0
  /\ eofSeen = FALSE

\* A terminal has attributes, nothing typed yet, and is open.  An input
\* that is no terminal is a file: its bytes are all there, then end of file.
Init ==
  /\ pc = "start"
  /\ isatty \in BOOLEAN
  /\ termAttr \in (IF isatty THEN Attrs ELSE {"none"})
  /\ coalesce_ms \in -1..MaxCoalesceMs
  /\ keys \in Keyboards
  /\ input = (IF isatty THEN <<>> ELSE keys)
  /\ arrT = [i \in 1..Len(input) |-> 0]
  /\ closed = ~isatty
  /\ data = <<>>
  /\ entryAttr = termAttr
  /\ Idle

\* The describer on its own: a byte sequence is handed to _describe_bytes.
InitDescribe ==
  /\ pc = "describe"
  /\ data \in SeqsUpTo(DescBytes, MaxDescLen)
  /\ isatty = TRUE
  /\ termAttr = "cooked"
  /\ entryAttr = "cooked"
  /\ coalesce_ms = 0
  /\ keys = <<>>
  /\ input = <<>>
  /\ arrT = <<>>
  /\ closed = FALSE
  /\ Idle

\* ------------------------------------------------------- leaving main
\* Exit status of the interpreter: main's return value (lines 115, 119), or
\* that of an exception nobody catches.
ExitStatus(e) ==
  IF e = "none" THEN EXIT_OK ELSE IF e = "KeyboardInterrupt" THEN 130 ELSE 1

\* Lines 112-115: the finally block hands the snapshot to tcsetattr.
RestoredAttr(snapshot, current) == snapshot

\* Bug: the attributes are restored after the loop, not in a finally block.
Leave_NoFinally(e) ==
  /\ termAttr' = (IF e = "none" THEN old ELSE termAttr)
  /\ exc' = e
  /\ status' = ExitStatus(e)
  /\ stderr' = IF e = "none" THEN stderr ELSE Append(stderr, e)
  /\ pc' = "exited"

\* Lines 112-119: the try block is left with exception e in flight ("none"
\* at break): the finally block restores the attributes, then main returns
\* 0 or the exception ends the process, its traceback on standard error.
Leave(e) ==
  /\ termAttr' = RestoredAttr(old, termAttr)
  /\ exc' = e
  /\ status' = ExitStatus(e)
  /\ stderr' = IF e = "none" THEN stderr ELSE Append(stderr, e)
  /\ pc' = "exited"

\* ---------------------------------------------------------------- main
\* Line 77: the message for an input that is no terminal.
NotATtyMessage == "stdin is not a TTY; run this in an interactive terminal."

\* Bug: the attributes are captured before the terminal check.
NotATty_AfterCapture ==
  /\ pc = "start"
  /\ ~isatty
  /\ old' = termAttr
  /\ calls' = calls \cup {"tcgetattr"}
  /\ stderr' = Append(stderr, NotATtyMessage)
  /\ status' = EXIT_NOT_TTY
  /\ pc' = "exited"
  /\ UNCHANGED <<env, inp, termAttr, coalesce_timeout, data, counter,
                 description, lines, exc, events, waits, tFirst, eofSeen>>

\* Lines 76-79: stdin is not a terminal.
NotATty ==
  /\ pc = "start"
  /\ ~isatty
  /\ stderr' = Append(stderr, NotATtyMessage)
  /\ status' = EXIT_NOT_TTY
  /\ pc' = "exited"
  /\ UNCHANGED <<env, inp, termAttr, old, coalesce_timeout, data, counter,
                 description, lines, exc, events, calls, waits, tFirst, eofSeen>>

\* Lines 81-88: snapshot of the attributes, the clamped window, the banner.
Capture ==
  /\ pc = "start"
  /\ isatty
  /\ old' = termAttr
  /\ calls' = calls \cup {"tcgetattr"}
  /\ coalesce_timeout' = ClampedWindow(coalesce_ms)
  /\ pc' = "setraw"
  /\ UNCHANGED <<env, inp, termAttr, data, counter, description, lines,
                 stderr, status, exc, events, waits, tFirst, eofSeen>>

\* Lines 90-92: tty.setraw(fd); counter = 0.
SetRaw ==
  /\ pc = "setraw"
  /\ termAttr' = "raw"
  /\ calls' = calls \cup {"setraw"}
  /\ counter' = 0
  /\ pc' = "read"
  /\ UNCHANGED <<env, inp, old, coalesce_timeout, data, description, lines,
                 stderr, status, exc, events, waits, tFirst, eofSeen>>

\* Line 48: the blocking os.read(fd, 1) returns one byte, at once when one
\* is buffered, else when the next burst arrives.
ReadFirst ==
  /\ pc = "read"
  /\ \/ /\ Buffered > 0
        /\ UNCHANGED <<input, arrT, now>>
     \/ /\ Buffered = 0
        /\ ~closed
        /\ \E d \in 0..MaxGap, b \in Bursts :
             /\ now' = now + d
             /\ input' = input \o b
             /\ arrT' = arrT \o [i \in 1..Len(b) |-> now + d]
  /\ data' = SubSeq(input', pos + 1, pos + FIRST_READ)
  /\ pos' = pos + FIRST_READ
  /\ tFirst' = now'
  /\ calls' = calls \cup {"read"}
  /\ pc' = "coalesce"
  /\ UNCHANGED <<env, termAttr, old, coalesce_timeout, closed, counter,
                 description, lines, stderr, status, exc, events, waits, eofSeen>>

\* Line 48: the blocking os.read(fd, 1) returns zero bytes: the input is
\* closed, or is closed while the read waits.
ReadFirstEof ==
  /\ pc = "read"
  /\ Buffered = 0
  /\ closed' = TRUE
  /\ data' = <<>>
  /\ tFirst' = now
  /\ eofSeen' = TRUE
  /\ calls' = calls \cup {"read"}
  /\ pc' = "coalesce"
  /\ UNCHANGED <<env, termAttr, old, coalesce_timeout, input, arrT, pos, now,
                 counter, description, lines, stderr, status, exc, events, waits>>

\* Lines 48, 51, 56, 112-113: os.read or select.select raises OSError; the
\* finally block runs and the exception leaves main.
ReadFault ==
  /\ pc \in {"read", "coalesce"}
  /\ Leave("OSError")
  /\ calls' = calls \cup {IF pc = "read" THEN "read" ELSE "select", "tcsetattr"}
  /\ UNCHANGED <<env, inp, old, coalesce_timeout, data, counter, description,
                 lines, events, waits, tFirst, eofSeen>>

\* Delays after which select.select(.., t), called with nothing buffered,
\* can report a burst that arrives: any delay inside the window; a burst
\* arriving exactly as the window ends races with the timeout.
WakeDelays(t) == 1..Min(t, MaxGap)

\* Bug: an if in place of the while, one chunk is appended and the event
\* is returned.
CoalesceAppend_Once ==
  /\ pc = "coalesce"
  /\ \/ /\ Buffered > 0
        /\ UNCHANGED <<input, arrT, now>>
     \/ /\ Buffered = 0
        /\ ~closed
        /\ \E d \in WakeDelays(coalesce_timeout), b \in Bursts :
             /\ now' = now + d
             /\ input' = input \o b
             /\ arrT' = arrT \o [i \in 1..Len(b) |-> now + d]
  /\ data' = Extend(data, SubSeq(input', pos + 1, pos + Min(Len(input') - pos, CHUNK_SIZE)))
  /\ pos' = pos + Min(Len(input') - pos, CHUNK_SIZE)
  /\ calls' = calls \cup {"select", "read"}
  /\ waits' = waits \cup {coalesce_timeout}
  /\ events' = Append(events, data')
  /\ pc' = "present"
  /\ UNCHANGED <<env, termAttr, old, coalesce_timeout, closed, counter,
                 description, lines, stderr, status, exc, tFirst, eofSeen>>

\* Lines 51-61: select reports readable, os.read(fd, 1024) returns a chunk,
\* the chunk is appended and the wait starts again.
CoalesceAppend ==
  /\ pc = "coalesce"
  /\ \/ /\ Buffered > 0
        /\ UNCHANGED <<input, arrT, now>>
     \/ /\ Buffered = 0
        /\ ~closed
        /\ \E d \in WakeDelays(coalesce_timeout), b \in Bursts :
             /\ now' = now + d
             /\ input' = input \o b
             /\ arrT' = arrT \o [i \in 1..Len(b) |-> now + d]
  /\ data' = Extend(data, SubSeq(input', pos + 1, pos + Min(Len(input') - pos, CHUNK_SIZE)))
  /\ pos' = pos + Min(Len(input') - pos, CHUNK_SIZE)
  /\ calls' = calls \cup {"select", "read"}
  /\ waits' = waits \cup {coalesce_timeout}
  /\ UNCHANGED <<env, pc, termAttr, old, coalesce_timeout, closed, counter,
                 description, lines, stderr, status, exc, events, tFirst, eofSeen>>

\* Lines 51-54, 63: nothing becomes readable within the window, select
\* times out; _read_event returns.
CoalesceTimeout ==
  /\ pc = "coalesce"
  /\ Buffered = 0
  /\ ~closed
  /\ now' = now + coalesce_timeout
  /\ calls' = calls \cup {"select"}
  /\ waits' = waits \cup {coalesce_timeout}
  /\ events' = Append(events, data)
  /\ pc' = "present"
  /\ UNCHANGED <<env, termAttr, old, coalesce_timeout, input, arrT, closed, pos,
                 data, counter, description, lines, stderr, status, exc, tFirst,
                 eofSeen>>

\* Lines 51-59, 63: select reports readable at end of input (the input is
\* closed, or is closed within a positive window), os.read returns zero
\* bytes; _read_event returns.
CoalesceEof ==
  /\ pc = "coalesce"
  /\ Buffered = 0
  /\ closed \/ coalesce_timeout > 0
  /\ closed' = TRUE
  /\ eofSeen' = TRUE
  /\ calls' = calls \cup {"select", "read"}
  /\ waits' = waits \cup {coalesce_timeout}
  /\ events' = Append(events, data)
  /\ pc' = "present"
  /\ UNCHANGED <<env, termAttr, old, coalesce_timeout, input, arrT, pos, now,
                 data, counter, description, lines, stderr, status, exc, tFirst>>

\* Lines 97-98, 112-115: the event is an exit byte; the loop is left, the
\* finally block runs and main returns 0.
Break ==
  /\ pc = "present"
  /\ IsExitEvent(data)
  /\ Leave("none")
  /\ calls' = calls \cup {"tcsetattr"}
  /\ UNCHANGED <<env, inp, old, coalesce_timeout, data, counter, description,
                 lines, events, waits, tFirst, eofSeen>>

\* Lines 100-110: count, describe, print one line, flush.
PrintEvent ==
  /\ pc = "present"
  /\ ~IsExitEvent(data)
  /\ counter < MaxCounter
  /\ counter' = NextCounter(counter)
  /\ description' = Suffix(_describe_bytes(data))
  /\ lines' = Append(lines, Line(counter', data, description', eofSeen))
  /\ pc' = "read"
  /\ UNCHANGED <<env, inp, termAttr, old, coalesce_timeout, data, stderr,
                 status, exc, events, calls, waits, tFirst, eofSeen>>

\* Lines 100-113: print or flush raises OSError after the counter was
\* raised; the finally block runs and the exception leaves main.
PrintFault ==
  /\ pc = "present"
  /\ ~IsExitEvent(data)
  /\ counter < MaxCounter
  /\ counter' = NextCounter(counter)
  /\ description' = Suffix(_describe_bytes(data))
  /\ Leave("OSError")
  /\ calls' = calls \cup {"tcsetattr"}
  /\ UNCHANGED <<env, inp, old, coalesce_timeout, data, lines, events, waits,
                 tFirst, eofSeen>>

\* Line 103 alone: description = _describe_bytes(data).
Describe ==
  /\ pc = "describe"
  /\ description' = _describe_bytes(data)
  /\ pc' = "described"
  /\ UNCHANGED <<env, inp, termAttr, old, coalesce_timeout, data, counter, lines,
                 stderr, status, exc, events, calls, waits, tFirst, eofSeen>>

\* The file installs no signal handler (lines 66-115).  The interpreter's
\* own handler turns SIGINT into KeyboardInterrupt, raised in the loop: the
\* finally block runs.
Interrupt ==
  /\ pc \in {"read", "coalesce", "present"}
  /\ Leave("KeyboardInterrupt")
  /\ calls' = calls \cup {"tcsetattr"}
  /\ UNCHANGED <<env, inp, old, coalesce_timeout, data, counter, description,
                 lines, events, waits, tFirst, eofSeen>>

\* Any other terminating signal has its default disposition: the process
\* ends at once, no finally block runs.
Terminate ==
  /\ pc \in {"read", "coalesce", "present"}
  /\ \E sig \in Signals \ {"SIGINT"} : status' = sig
  /\ pc' = "killed"
  /\ UNCHANGED <<env, inp, termAttr, old, coalesce_timeout, data, counter,
                 description, lines, stderr, exc, events, calls, waits, tFirst,
                 eofSeen>>

Next ==
  \/ NotATty
  \/ Capture
  \/ SetRaw
  \/ ReadFirst
  \/ ReadFirstEof
  \/ ReadFault
  \/ CoalesceAppend
  \/ CoalesceTimeout
  \/ CoalesceEof
  \/ Break
  \/ PrintEvent
  \/ PrintFault

Spec == Init /\ [][Next]_vars

\* The loop with signals from outside.
NextSig ==
  \/ Next
  \/ Interrupt
  \/ Terminate

SpecSig == Init /\ [][NextSig]_vars

\* The describer alone, on every short sequence of DescBytes.
SpecDescribe == InitDescribe /\ [][Describe]_vars

\* ============================================================== claims
Range(f) == {f[i] : i \in DOMAIN f}

RECURSIVE Flatten(_)
Flatten(ss) == IF ss = <<>> THEN <<>> ELSE Head(ss) \o Flatten(Tail(ss))

\* The loop has ended the normal way: main returned.
Terminated == pc = "exited" /\ exc = "none" /\ isatty

\* C1: once the attributes were captured and raw mode entered, every way out
\* of the read loop (an exit byte, a fault of a read or of printing) hands
\* the snapshot back to the terminal before the process exits: the
\* attributes after exit are those before entry, the status is 0 after an
\* exit byte and not 0 after a fault.
C1_RestoredOnEveryExit ==
  (pc = "exited" /\ "setraw" \in calls) =>
    /\ old # "none"
    /\ "tcsetattr" \in calls
    /\ termAttr = old
    /\ termAttr = entryAttr
    /\ (exc = "none") <=> (status = 0)

C1_Witness ==
  /\ pc = "exited"
  /\ exc = "OSError"
  /\ "setraw" \in calls
  /\ Len(lines) >= 1
  /\ entryAttr = "cbreak"
  /\ termAttr = "cbreak"

\* C2: when standard input is no terminal, main exits with status 2 after
\* writing the not-a-TTY message to standard error, and captures no
\* attribute, changes no mode, restores nothing and reads no byte.
C2_NotATerminal ==
  ~isatty =>
    /\ pc \in {"start", "exited"}
    /\ calls = {}
    /\ old = "none"
    /\ termAttr = entryAttr
    /\ pos = 0
    /\ events = <<>>
    /\ lines = <<>>
    /\ pc = "exited" => (status = 2 /\ stderr = <<NotATtyMessage>>)

C2_Witness ==
  /\ pc = "exited"
  /\ ~isatty
  /\ Len(input) >= 1
  /\ status = 2

\* C3: in the running loop an event ends the loop exactly when it is the
\* single byte 0x71 or the single byte 0x03; that event prints nothing and
\* leaves the counter alone, and main returns 0.  Every other event, also
\* one of several bytes that contains 0x71 or 0x03, prints one line (unless
\* printing faults) and the loop goes on to the next read.
C3_Step ==
  /\ (pc = "present" /\ data \in {<<113>>, <<3>>}) =>
       /\ pc' = "exited"
       /\ exc' = "none"
       /\ status' = 0
       /\ lines' = lines
       /\ counter' = counter
  /\ (pc = "present" /\ data \notin {<<113>>, <<3>>} /\ exc' = "none") =>
       /\ pc' = "read"
       /\ Len(lines') = Len(lines) + 1
       /\ SubSeq(lines', 1, Len(lines)) = lines
       /\ lines'[Len(lines')].data = data
       /\ counter' = counter + 1
  /\ (isatty /\ pc # "exited" /\ pc' = "exited" /\ exc' = "none") =>
       (pc = "present" /\ data \in {<<113>>, <<3>>})

C3_ExitExactlyOnExitByte == [][C3_Step]_vars

C3_Witness ==
  /\ Terminated
  /\ data = <<113>>
  /\ status = 0
  /\ \E i \in 1..Len(lines) :
       Len(lines[i].data) > 1 /\ 113 \in Range(lines[i].data)

\* C4: the counter on the Nth printed line is N, and when the next read
\* begins every event returned so far has exactly one line, in order.
C4_CounterIsLineNumber ==
  /\ \A i \in 1..Len(lines) : lines[i].counter = i
  /\ counter >= Len(lines)
  /\ pc \in {"read", "coalesce"} =>
       /\ counter = Len(lines)
       /\ Len(lines) = Len(events)
       /\ \A i \in 1..Len(lines) : lines[i].data = events[i]

C4_Witness ==
  /\ pc = "read"
  /\ ~eofSeen
  /\ Len(lines) >= 3
  /\ lines[3].counter = 3

\* C5: _describe_bytes gives the label of the first rule that matches, in
\* the order CR, LF, TAB, ESC, DEL (each exactly that byte), prefix ESC [,
\* prefix ESC O, one byte in 0x00..0x1f (generic label with two lowercase
\* hex digits), else no label; 0x0d, 0x0a, 0x09, 0x1b alone never get the
\* generic label and every other single control byte does.
C5_Rule(i, d) ==
  CASE i = 1 -> d = <<13>>
    [] i = 2 -> d = <<10>>
    [] i = 3 -> d = <<9>>
    [] i = 4 -> d = <<27>>
    [] i = 5 -> d = <<127>>
    [] i = 6 -> Len(d) >= 2 /\ d[1] = 27 /\ d[2] = 91
    [] i = 7 -> Len(d) >= 2 /\ d[1] = 27 /\ d[2] = 79
    [] i = 8 -> Len(d) = 1 /\ d[1] \in 0..31
    [] OTHER -> TRUE

C5_HexTable ==
  <<"00", "01", "02", "03", "04", "05", "06", "07",
    "08", "09", "0a", "0b", "0c", "0d", "0e", "0f",
    "10", "11", "12", "13", "14", "15", "16", "17",
    "18", "19", "1a", "1b", "1c", "1d", "1e", "1f">>

C5_Generic(b) == "Control byte 0x" \o C5_HexTable[b + 1]

C5_Label(i, d) ==
  CASE i = 1 -> "CR (\\r) - often Enter/Return; also Ctrl+M"
    [] i = 2 -> "LF (\\n) - often newline; also Ctrl+J"
    [] i = 3 -> "TAB (\\t) - also Ctrl+I"
    [] i = 4 -> "ESC"
    [] i = 5 -> "DEL (0x7f) - often Backspace"
    [] i = 6 -> "ANSI CSI sequence (starts with ESC [)"
    [] i = 7 -> "ANSI SS3 sequence (starts with ESC O)"
    [] i = 8 -> C5_Generic(d[1])
    [] OTHER -> ""

C5_FirstRule(d) ==
  CHOOSE i \in 1..9 : C5_Rule(i, d) /\ \A j \in 1..(i - 1) : ~C5_Rule(j, d)

C5_FirstMatchingRule ==
  pc = "described" =>
    /\ description = C5_Label(C5_FirstRule(data), data)
    /\ (Len(data) = 1 /\ data[1] \in 0..31) =>
         (description = C5_Generic(data[1])) <=> (data[1] \notin {13, 10, 9, 27})

C5_Witness ==
  /\ pc = "described"
  /\ data = <<31>>
  /\ description = "Control byte 0x1f"

\* C6: with the bytes 0x1b 0x5b 0x41 arriving, each less than the window
\* after the one before, the first _read_event returns all three as one
\* event; each more than the window after the one before, the first call
\* returns 0x1b alone and the next call starts with 0x5b.  The coalescing
\* loop appends what becomes readable within the window and waits again;
\* it returns only on a timeout with nothing readable or on a zero-byte read.
C6_UpArrow == Len(input) >= 3 /\ SubSeq(input, 1, 3) = <<27, 91, 65>>

C6_AllWithin ==
  (C6_UpArrow /\ Gap(2) < coalesce_timeout /\ Gap(3) < coalesce_timeout
     /\ Len(events) >= 1) =>
    /\ Len(events[1]) >= 3
    /\ SubSeq(events[1], 1, 3) = <<27, 91, 65>>
    /\ Len(input) = 3 => events[1] = <<27, 91, 65>>

C6_AllBeyond ==
  (C6_UpArrow /\ coalesce_timeout >= 0 /\ Gap(2) > coalesce_timeout
     /\ Gap(3) > coalesce_timeout /\ Len(events) >= 1) =>
    /\ events[1] = <<27>>
    /\ Len(events) >= 2 => events[2] = <<91>>

C6_Step ==
  /\ C6_AllWithin'
  /\ C6_AllBeyond'
  /\ (pc = "coalesce" /\ pc' = "present") =>
       /\ Buffered = 0
       /\ input' = input
       /\ events' = Append(events, data)
       /\ \/ now' = now + coalesce_timeout /\ ~closed'
          \/ now' = now /\ closed'
  /\ (pc = "coalesce" /\ exc' = "none" /\ (Buffered > 0 \/ input' # input)) =>
       /\ pc' = "coalesce"
       /\ now' - now <= coalesce_timeout
       /\ data' = data \o SubSeq(input', pos + 1, Len(input'))
       /\ pos' = Len(input')

C6_Coalescing == [][C6_Step]_vars

C6_Witness ==
  /\ input = <<27, 91, 65>>
  /\ Gap(2) > 0
  /\ Gap(3) > 0
  /\ Gap(2) < coalesce_timeout
  /\ Gap(3) < coalesce_timeout
  /\ events = << <<27, 91, 65>> >>

\* C7: a termination signal that arrives while raw mode is active also
\* leads to the snapshot being handed back to the terminal before the
\* process ends.
C7_RestoredOnSignal ==
  (pc \in {"killed", "exited"} /\ "setraw" \in calls) => termAttr = old

\* C8: with an effective window of 0 (flag 0, or negative and clamped)
\* _read_event still appends every byte that is buffered at each readiness
\* check, returns a one-byte event only when nothing else was buffered, does
\* not wait, and select never gets a negative timeout.
C8_ZeroWindow ==
  /\ \A w \in waits : w >= 0
  /\ coalesce_ms <= 0 =>
       /\ waits \subseteq {0}
       /\ pc = "present" =>
            /\ now = tFirst
            /\ \A i \in (pos - Len(data) + 1)..pos : arrT[i] <= tFirst
            /\ pos = Len(input)

C8_Witness ==
  /\ coalesce_ms = -1
  /\ pc = "present"
  /\ waits = {0}
  /\ Len(data) >= 2

\* C9: once the input is closed the loop prints at most the one trailing
\* event and then ends; it does not go on reading and printing events.
C9_ClosureEndsLoop ==
  Cardinality({i \in 1..Len(lines) : lines[i].closed}) <= 1

\* C10: the events returned by _read_event, one after the other and the exit
\* event included, are the bytes consumed from the input, none dropped,
\* doubled or moved, also when a chunk holds several bytes.
C10_EventsAreTheInput ==
  (isatty /\ exc = "none") =>
    /\ pos <= Len(input)
    /\ Flatten(events) \o (IF pc = "coalesce" THEN data ELSE <<>>)
         = SubSeq(input, 1, pos)

C10_Witness ==
  /\ Terminated
  /\ Len(events) >= 2
  /\ Len(events[1]) >= 3
  /\ events[Len(events)] = <<113>>

====
